---- MODULE Spec2Model ----
(***************************************************************************)
(* Model of the plotting utilities of pats-model (src/utils):              *)
(*   compare_chart/colormaps.py   anchor based colour maps                 *)
(*   compare_chart/radar_reader.py  decoding of a Rainbow radar product    *)
(*   cape.py                      merge of two point sets, derived columns *)
(*                                and scattered-to-grid interpolation      *)
(*   compare_chart/plot.py        the four panel comparison chart          *)
(*                                                                         *)
(* Floating point numbers are modelled as exact rationals <<n, d>>, d > 0, *)
(* extended with the IEEE values NaN, +inf and -inf where the code can     *)
(* produce them (the relative error of cape.py).                           *)
(***************************************************************************)
EXTENDS Integers, Sequences, FiniteSets, TLC

VARIABLES
    \* colormaps.py
    cmapCall,     \* arguments handed to get_continuous_cmap
    cmp,          \* what get_continuous_cmap produced
    lookup,       \* result of calling the colour map on a data value
    \* radar_reader.py
    radar_dict,   \* the "radarpicture" dictionary read from the file
    data,         \* what get_radar_data produced
    \* cape.py
    conv1d, conv3d, conv, cape_pc,
    \* scattered data interpolation (cape.py, plot.py)
    coords, values, grid_z,
    \* plot.py main()
    files, pc, rasters, failure

cmapVars  == <<cmapCall, cmp, lookup>>
radarVars == <<radar_dict, data>>
capeVars  == <<conv1d, conv3d, conv, cape_pc>>
gridVars  == <<coords, values, grid_z>>
plotVars  == <<files, pc, rasters, failure>>
vars == <<cmapCall, cmp, lookup, radar_dict, data, conv1d, conv3d, conv,
          cape_pc, coords, values, grid_z, files, pc, rasters, failure>>

None == [kind |-> "none"]

(***************************************************************************)
(* Exact rational arithmetic.                                              *)
(***************************************************************************)
Abs(x) == IF x < 0 THEN -x ELSE x
RECURSIVE Gcd(_, _)
Gcd(a, b) == IF b = 0 THEN a ELSE Gcd(b, a % b)
\* lowest terms, so that equal numbers are equal values
RNorm(a) == LET g == Gcd(Abs(a[1]), a[2]) IN <<a[1] \div g, a[2] \div g>>
Rat(n, d) == <<n, d>>
RInt(k) == <<k, 1>>
RAdd(a, b) == RNorm(<<a[1] * b[2] + b[1] * a[2], a[2] * b[2]>>)
RSub(a, b) == RNorm(<<a[1] * b[2] - b[1] * a[2], a[2] * b[2]>>)
RMul(a, b) == RNorm(<<a[1] * b[1], a[2] * b[2]>>)
\* a / b for b # 0
RDiv(a, b) == IF b[1] > 0 THEN RNorm(<<a[1] * b[2], a[2] * b[1]>>)
                          ELSE RNorm(<<-(a[1] * b[2]), -(a[2] * b[1])>>)
REq(a, b) == a[1] * b[2] = b[1] * a[2]
RLt(a, b) == a[1] * b[2] < b[1] * a[2]
RLe(a, b) == a[1] * b[2] <= b[1] * a[2]
RFloor(a) == a[1] \div a[2]

Range(s) == {s[i] : i \in DOMAIN s}
SeqsUpTo(S, n) == UNION {[1..k -> S] : k \in 0..n}

(***************************************************************************)
(* compare_chart/colormaps.py                                              *)
(*                                                                         *)
(* A hex colour string is a sequence of one-character strings.             *)
(***************************************************************************)
Channels == <<"red", "green", "blue", "alpha">>

HexDigits == <<"0", "1", "2", "3", "4", "5", "6", "7",
               "8", "9", "a", "b", "c", "d", "e", "f">>
HexBase == 16
RgbDivisor == 256
LutSize == 256

\* str.strip(c): drop the leading and the trailing run of c
RECURSIVE LStrip(_, _)
LStrip(s, c) == IF s # <<>> /\ Head(s) = c THEN LStrip(Tail(s), c) ELSE s
RECURSIVE RStrip(_, _)
RStrip(s, c) == IF s # <<>> /\ s[Len(s)] = c
                THEN RStrip(SubSeq(s, 1, Len(s) - 1), c) ELSE s
Strip(s, c) == RStrip(LStrip(s, c), c)

DigitValue(c) == (CHOOSE i \in DOMAIN HexDigits : HexDigits[i] = c) - 1
\* int(s, 16)
RECURSIVE ParseHex(_)
ParseHex(s) == IF s = <<>> THEN 0
               ELSE ParseHex(SubSeq(s, 1, Len(s) - 1)) * HexBase
                    + DigitValue(s[Len(s)])

\* tuple(int(value[i : i + lv // 3], 16) for i in range(0, lv, lv // 3))
hex_to_rgb(value) ==
    LET v    == Strip(value, "#")
        lv   == Len(v)
        step == lv \div 3
        n    == (lv + step - 1) \div step
        Min(a, b) == IF a < b THEN a ELSE b
    IN  [k \in 1..n |->
            ParseHex(SubSeq(v, (k - 1) * step + 1, Min(k * step, lv)))]

\* [v / 256 for v in value]
rgb_to_dec(value) == [k \in DOMAIN value |-> Rat(value[k], RgbDivisor)]

\* Lines 37-52.  alpha_list[i] (line 40) and rgba_list[i] (line 45) raise
\* IndexError when the index is past the end of the list; there is no other
\* check of the three lengths.  LinearSegmentedColormap only stores the
\* segment data: it is validated when the map is first used.
get_continuous_cmap(hex_list, float_list, alpha_list) ==
    IF Len(alpha_list) < Len(hex_list)
    THEN [kind |-> "IndexError"]
    ELSE IF Len(float_list) > Len(hex_list)
    THEN [kind |-> "IndexError"]
    ELSE
      LET rgba_list == [i \in DOMAIN hex_list |->
                           Append(rgb_to_dec(hex_to_rgb(hex_list[i])),
                                  alpha_list[i])]
      IN  [kind |-> "cmap",
           N |-> LutSize,
           segmentdata |->
             [num \in DOMAIN Channels |->
                [i \in DOMAIN float_list |->
                   <<float_list[i], rgba_list[i][num], rgba_list[i][num]>>]]]

\* The colour map object built at line 50, called on a data value.
\* matplotlib builds, per channel, a table of N entries from the rows
\* <<x, y0, y1>>: it requires x[0] = 0, x[-1] = 1 and x non-decreasing
\* (ValueError otherwise), sets entry 0 to y1[0], entry N-1 to y0[-1],
\* interpolates the others linearly between the bracketing rows and clips
\* the table to [0, 1].
SegmentsValid(d) ==
    /\ Len(d) > 0
    /\ REq(d[1][1], RInt(0))
    /\ REq(d[Len(d)][1], RInt(1))
    /\ \A i \in 1..(Len(d) - 1) : RLe(d[i][1], d[i + 1][1])

Clip(v) == IF RLt(v, RInt(0)) THEN RInt(0)
           ELSE IF RLt(RInt(1), v) THEN RInt(1) ELSE v

LutEntry(N, d, k) ==
    Clip(IF k = 0 THEN d[1][3]
         ELSE IF k = N - 1 THEN d[Len(d)][2]
         ELSE
           LET xind == RInt(k)
               x(i) == RMul(d[i][1], RInt(N - 1))
               \* numpy.searchsorted(x, xind), side "left"
               ind  == CHOOSE i \in 1..Len(d) :
                          /\ RLe(xind, x(i))
                          /\ \A j \in 1..(i - 1) : RLt(x(j), xind)
               distance == RDiv(RSub(xind, x(ind - 1)),
                                RSub(x(ind), x(ind - 1)))
           IN  RAdd(RMul(distance, RSub(d[ind][2], d[ind - 1][3])),
                    d[ind - 1][3]))

\* index of the table entry used for the value t: int(t * N), with t = 1
\* mapped to N - 1, values below 0 to the "under" colour (entry 0) and
\* values above 1 to the "over" colour (entry N - 1)
LutIndex(N, t) ==
    IF RLt(t, RInt(0)) THEN 0
    ELSE IF RLe(RInt(1), t) THEN N - 1
    ELSE RFloor(RMul(t, RInt(N)))

ColormapCall(c, t) ==
    IF \E num \in DOMAIN Channels : ~SegmentsValid(c.segmentdata[num])
    THEN [kind |-> "ValueError"]
    ELSE [kind |-> "rgba",
          t |-> t,
          value |-> [num \in DOMAIN Channels |->
                       RNorm(LutEntry(c.N, c.segmentdata[num],
                                      LutIndex(c.N, t)))]]

\* the three palettes: anchor colours and raw break points
radar_hex_list ==
    << <<"#","f","f","f","f","f","f">>,
       <<"#","0","7","0","7","c","8">>,
       <<"#","1","2","6","1","f","f">>,
       <<"#","0","0","b","4","f","f">>,
       <<"#","3","c","c","d","f","f">>,
       <<"#","7","8","e","6","f","f">>,
       <<"#","b","b","f","2","f","f">>,
       <<"#","f","f","f","f","f","f">>,
       <<"#","f","f","f","7","9","9">>,
       <<"#","f","f","e","e","3","3">>,
       <<"#","f","f","c","b","1","a">>,
       <<"#","f","f","7","3","0","0">>,
       <<"#","f","f","1","e","0","0">>,
       <<"#","c","8","0","0","0","0">>,
       <<"#","a","f","0","0","1","4">>,
       <<"#","9","6","0","0","2","8">>,
       <<"#","b","e","0","0","7","8">>,
       <<"#","d","6","1","1","9","b">>,
       <<"#","e","e","2","3","b","e">>,
       <<"#","f","6","4","6","d","2">>,
       <<"#","f","f","6","9","e","6">>,
       <<"#","f","f","f","f","f","f">> >>

radar_breaks ==
    << 0, 5, 8, 11, 14, 17, 20, 23, 28, 31, 33, 34, 37, 40, 44, 47, 50, 53, 56, 59, 62, 65 >>

meteologix_hex_list ==
    << <<"#","1","e","7","8","0","0">>,
       <<"#","4","4","9","9","0","0">>,
       <<"#","6","8","a","c","0","6">>,
       <<"#","8","c","c","0","0","d">>,
       <<"#","b","1","d","4","1","4">>,
       <<"#","d","5","e","8","1","b">>,
       <<"#","f","a","f","c","2","2">>,
       <<"#","f","a","d","0","2","4">>,
       <<"#","f","a","a","4","2","7">>,
       <<"#","f","b","7","9","2","9">>,
       <<"#","f","b","4","d","2","c">>,
       <<"#","f","c","2","2","2","f">>,
       <<"#","f","c","2","2","5","6">>,
       <<"#","f","c","2","2","7","e">>,
       <<"#","f","c","2","2","a","6">>,
       <<"#","f","c","2","2","c","e">>,
       <<"#","f","c","2","2","f","6">>,
       <<"#","f","c","4","1","f","7">>,
       <<"#","f","c","6","1","f","8">>,
       <<"#","f","d","8","0","f","9">>,
       <<"#","f","d","a","0","f","b">>,
       <<"#","f","e","b","f","f","c">>,
       <<"#","f","e","d","f","f","d">> >>

meteologix_breaks ==
    << 0, 20, 40, 100, 200, 300, 400, 600, 800, 1000, 1200, 1400, 1600, 1800, 2000, 2200, 2400, 2800, 3200, 3600, 4000, 4500, 5000 >>

pivotal_hex_list ==
    << <<"#","f","f","f","f","f","f">>,
       <<"#","6","9","6","9","6","9">>,
       <<"#","3","7","5","3","6","a">>,
       <<"#","a","7","c","8","c","e">>,
       <<"#","e","9","d","d","9","6">>,
       <<"#","e","1","6","f","0","2">>,
       <<"#","d","c","4","1","1","0">>,
       <<"#","8","b","0","9","5","0">>,
       <<"#","7","3","0","8","8","a">> >>

pivotal_breaks ==
    << 0, 900, 1000, 1900, 2000, 2900, 3000, 3900, 4000 >>

\* list(np.array([...]) / maximum)
Normalised(breaks, maximum) ==
    [i \in DOMAIN breaks |-> Rat(breaks[i], maximum)]
Repeat(x, n) == [i \in 1..n |-> x]

radar_values      == Normalised(radar_breaks, 65)
\* variant: one alpha too few
radar_alpha_short == <<RInt(0)>> \o Repeat(RInt(1), 20)
radar_alpha       == <<RInt(0)>> \o Repeat(RInt(1), 21)
meteologix_values == Normalised(meteologix_breaks, 5000)
meteologix_alpha  == Repeat(RInt(1), 23)
pivotal_values    == Normalised(pivotal_breaks, 4000)
pivotal_alpha     == Repeat(RInt(1), 9)

\* inputs of the generic builder and of the lookup: up to MaxAnchors
\* positions, and colour and alpha lists that may be one entry longer
MaxAnchors == 2
HexInputs == { <<"#", "f", "f", "f", "f", "f", "f">>,
               <<"f", "f", "7", "3", "0", "0">> }
PosInputs == { Rat(0, 1), Rat(1, 2), Rat(1, 1) }
AlphaInputs == { Rat(0, 1), Rat(1, 1) }
SampleInputs == { Rat(-1, 2), Rat(0, 1), Rat(1, 4), Rat(1, 2), Rat(1, 1),
                  Rat(3, 2) }

Build(name, hex_list, float_list, alpha_list) ==
    /\ cmapCall.kind = "none"
    /\ cmapCall' = [kind |-> name, hex_list |-> hex_list,
                    float_list |-> float_list, alpha_list |-> alpha_list]
    /\ cmp' = get_continuous_cmap(hex_list, float_list, alpha_list)
    /\ UNCHANGED lookup

GetContinuousCmap ==
    /\ cmapCall.kind = "none"
    /\ \E hex_list \in SeqsUpTo(HexInputs, MaxAnchors + 1),
          float_list \in SeqsUpTo(PosInputs, MaxAnchors),
          alpha_list \in SeqsUpTo(AlphaInputs, MaxAnchors + 1) :
          Build("get_continuous_cmap", hex_list, float_list, alpha_list)
    /\ UNCHANGED <<radarVars, capeVars, gridVars, plotVars>>

GetRadarCmap ==
    /\ Build("get_radar_cmap", radar_hex_list, radar_values, radar_alpha)
    /\ UNCHANGED <<radarVars, capeVars, gridVars, plotVars>>

GetMeteologixCmap ==
    /\ Build("get_meteologix_cmap", meteologix_hex_list, meteologix_values,
             meteologix_alpha)
    /\ UNCHANGED <<radarVars, capeVars, gridVars, plotVars>>

GetPivotalCmap ==
    /\ Build("get_pivotal_cmap", pivotal_hex_list, pivotal_values,
             pivotal_alpha)
    /\ UNCHANGED <<radarVars, capeVars, gridVars, plotVars>>

Sample ==
    /\ lookup.kind = "none"
    /\ cmp.kind = "cmap"
    /\ \E t \in SampleInputs : lookup' = ColormapCall(cmp, t)
    /\ UNCHANGED <<cmapCall, cmp, radarVars, capeVars, gridVars, plotVars>>

(***************************************************************************)
(* compare_chart/radar_reader.py                                           *)
(*                                                                         *)
(* radar_dict is the "radarpicture" dictionary: a function whose domain is *)
(* the set of keys the file holds.  The raw raster is kept as the flat     *)
(* list of its cells: the rescaling is elementwise.                        *)
(***************************************************************************)
EmptyDict == [k \in {} |-> 0]
Has(d, k) == k \in DOMAIN d

RECURSIVE Pow2(_)
Pow2(n) == IF n = 0 THEN 1 ELSE 2 * Pow2(n - 1)

\* every key the function reads is there: a missing key raises KeyError
KeysPresent(d) ==
    /\ Has(d, "@min")
    /\ Has(d, "@max")
    /\ Has(d, "datamap")
    /\ Has(d["datamap"], "@depth")
    /\ Has(d["datamap"], "data")

\* variant: the range divided by the largest raw value, 2**datadepth - 1
Rescale_pow2m1(raw, datamin, datamax, datadepth) ==
    RAdd(datamin,
         RMul(RInt(raw),
              RDiv(RSub(datamax, datamin), RInt(Pow2(datadepth) - 1))))

\* line 13: datamin + (rawdata * ((datamax - datamin) / (2**datadepth)))
Rescale(raw, datamin, datamax, datadepth) ==
    RAdd(datamin,
         RMul(RInt(raw),
              RDiv(RSub(datamax, datamin), RInt(Pow2(datadepth)))))

\* Lines 5-15.  No check is made before the array is rescaled and returned.
get_radar_data(d) ==
    IF ~KeysPresent(d)
    THEN [kind |-> "KeyError"]
    ELSE LET datamin   == RInt(d["@min"])
             datamax   == RInt(d["@max"])
             datadepth == d["datamap"]["@depth"]
             rawdata   == d["datamap"]["data"]
         IN  [kind |-> "array",
              cells |-> [i \in DOMAIN rawdata |->
                           Rescale(rawdata[i], datamin, datamax, datadepth)]]

MaxCells == 2
MinInputs   == {0, -32}
MaxInputs   == {65, 96}
DepthInputs == {4, 8}
RawInputs   == {0, 15, 16, 128, 255, 256}

Optional(key, S) == {EmptyDict} \cup {key :> v : v \in S}
DatamapInputs ==
    {a @@ b : a \in Optional("@depth", DepthInputs),
              b \in Optional("data", SeqsUpTo(RawInputs, MaxCells))}
RadarInputs ==
    {a @@ b @@ c : a \in Optional("@min", MinInputs),
                   b \in Optional("@max", MaxInputs),
                   c \in Optional("datamap", DatamapInputs)}

GetRadarData ==
    /\ data.kind = "none"
    /\ data' = get_radar_data(radar_dict)
    /\ UNCHANGED <<radar_dict, cmapVars, capeVars, gridVars, plotVars>>

(***************************************************************************)
(* cape.py, lines 15-28: the two point sets, their merge and the derived   *)
(* columns.                                                                *)
(*                                                                         *)
(* A data frame is a sequence of rows, a row a function from column names  *)
(* to values.  Float results that may be NaN or infinite are records       *)
(* [k |-> "num", v |-> rational], [k |-> "nan"], [k |-> "inf"] and         *)
(* [k |-> "-inf"].                                                         *)
(***************************************************************************)
Num(r) == [k |-> "num", v |-> r]
NaN    == [k |-> "nan"]
PosInf == [k |-> "inf"]
NegInf == [k |-> "-inf"]

\* IEEE division of two finite numbers
FDiv(a, b) ==
    IF b[1] # 0 THEN Num(RDiv(a, b))
    ELSE IF a[1] = 0 THEN NaN
    ELSE IF a[1] > 0 THEN PosInf ELSE NegInf
\* IEEE product with a positive finite number
FMul(x, c) == IF x.k = "num" THEN Num(RMul(x.v, c)) ELSE x

\* DataFrame.rename(columns={old: new}) on one row
Rename(row, old, new) ==
    [c \in (DOMAIN row \ {old}) \cup {new} |->
        IF c = new THEN row[old] ELSE row[c]]

\* variant: pandas.merge(left, right, how="left"), which keeps the left
\* rows that have no match
merge_left(left, right) ==
    LET on == IF left = <<>> \/ right = <<>> THEN {}
              ELSE DOMAIN left[1] \cap DOMAIN right[1]
        Match(l, r) == \A c \in on : l[c] = r[c]
        RowsFor(l) ==
            LET m == SelectSeq(right, LAMBDA r : Match(l, r))
            IN  IF m = <<>> THEN <<l @@ ("CAPE3D" :> 0)>>
                ELSE [j \in DOMAIN m |-> l @@ m[j]]
        F[i \in 0..Len(left)] ==
            IF i = 0 THEN <<>> ELSE F[i - 1] \o RowsFor(left[i])
    IN  F[Len(left)]

\* pandas.merge(left, right): inner join on the columns the two frames
\* share, rows in the order of the left frame, one row per matching pair
merge(left, right) ==
    LET on == IF left = <<>> \/ right = <<>> THEN {}
              ELSE DOMAIN left[1] \cap DOMAIN right[1]
        Match(l, r) == \A c \in on : l[c] = r[c]
        RowsFor(l) ==
            LET m == SelectSeq(right, LAMBDA r : Match(l, r))
            IN  [j \in DOMAIN m |-> l @@ m[j]]
        F[i \in 0..Len(left)] ==
            IF i = 0 THEN <<>> ELSE F[i - 1] \o RowsFor(left[i])
    IN  F[Len(left)]

\* variant: the operands exchanged
diff_swapped(row) == row["CAPE1D"] - row["CAPE3D"]
\* line 24: conv['CAPE3D'] - conv['CAPE1D']
diff(row) == row["CAPE3D"] - row["CAPE1D"]

\* line 26: (conv['diff'].abs() / conv['CAPE1D']) * 100
rel_err_raw(row) ==
    FMul(FDiv(RInt(Abs(row["diff"])), RInt(row["CAPE1D"])), RInt(100))
\* line 27: fillna(0)
fillna(x, v) == IF x.k = "nan" THEN Num(RInt(v)) ELSE x
\* variant: the replacement not applied to the frame
replace_nothing(x, old, v) == x
\* line 28: replace(numpy.inf, 100)
replace(x, old, v) == IF x = old THEN Num(RInt(v)) ELSE x
\* lines 26-28
rel_err(row) == replace(fillna(rel_err_raw(row), 0), PosInf, 100)

\* the samples of the two CSV files
MaxRows == 2
Coordinates == { <<1, 1>>, <<1, 2>>, <<2, 2>> }
Cape1DInputs == {0, 10, 20}
Cape3DInputs == {0, 12, 18}
CsvRows(capes) ==
    { [Lon |-> c[1], Lat |-> c[2], CAPE |-> v] :
          c \in Coordinates, v \in capes }
\* lines 15-17 and 19-21: the three columns, CAPE renamed
Frames(capes, name) ==
    { [i \in DOMAIN f |-> Rename(f[i], "CAPE", name)] :
          f \in SeqsUpTo(CsvRows(capes), MaxRows) }

MergeFrames ==
    /\ cape_pc = "read"
    /\ conv' = merge(conv1d, conv3d)
    /\ cape_pc' = "merged"
    /\ UNCHANGED <<conv1d, conv3d, cmapVars, radarVars, gridVars, plotVars>>

DeriveDiff ==
    /\ cape_pc = "merged"
    /\ conv' = [i \in DOMAIN conv |-> conv[i] @@ ("diff" :> diff(conv[i]))]
    /\ cape_pc' = "diff"
    /\ UNCHANGED <<conv1d, conv3d, cmapVars, radarVars, gridVars, plotVars>>

DeriveRelErr ==
    /\ cape_pc = "diff"
    /\ conv' = [i \in DOMAIN conv |->
                   conv[i] @@ ("rel_err" :> rel_err(conv[i]))]
    /\ cape_pc' = "done"
    /\ UNCHANGED <<conv1d, conv3d, cmapVars, radarVars, gridVars, plotVars>>

(***************************************************************************)
(* cape.py, lines 38-41 (and 52-55, 66-69, 80-83; plot.py, lines 25-34):   *)
(* the scattered samples interpolated onto a regular lattice with          *)
(*   scipy.interpolate.griddata(coords, values, (grid_x, grid_y),          *)
(*                              method='linear')                           *)
(*                                                                         *)
(* griddata triangulates the sample coordinates (Delaunay), and for every  *)
(* lattice node looks for the triangle that holds it: the node gets the    *)
(* barycentric combination of the triangle's three values, or fill_value   *)
(* (NaN by default) when no triangle holds it.  Fewer than three samples,  *)
(* or samples that all lie on one line, make the triangulation fail.       *)
(* Coordinates are integers here (a lattice of sample positions).          *)
(***************************************************************************)
Cross(a, b, c) ==
    (b[1] - a[1]) * (c[2] - a[2]) - (b[2] - a[2]) * (c[1] - a[1])
Sign(x) == IF x > 0 THEN 1 ELSE IF x < 0 THEN -1 ELSE 0

\* d strictly inside the circle through a, b, c (not collinear)
InCircle(a, b, c, d) ==
    LET ax == a[1] - d[1]  ay == a[2] - d[2]
        bx == b[1] - d[1]  by == b[2] - d[2]
        cx == c[1] - d[1]  cy == c[2] - d[2]
        det == (ax * ax + ay * ay) * (bx * cy - cx * by)
               - (bx * bx + by * by) * (ax * cy - cx * ay)
               + (cx * cx + cy * cy) * (ax * by - bx * ay)
    IN  det * Sign(Cross(a, b, c)) > 0

\* the triangles a Delaunay triangulation of pts may hold: index triples
\* that are not collinear and whose circumcircle holds no sample inside
DelaunayCandidates(pts) ==
    { t \in (DOMAIN pts) \X (DOMAIN pts) \X (DOMAIN pts) :
        /\ t[1] < t[2] /\ t[2] < t[3]
        /\ Cross(pts[t[1]], pts[t[2]], pts[t[3]]) # 0
        /\ \A m \in DOMAIN pts :
               ~InCircle(pts[t[1]], pts[t[2]], pts[t[3]], pts[m]) }

\* segments pq and rs cross at a point interior to both
ProperCross(p, q, r, s) ==
    /\ Sign(Cross(p, q, r)) * Sign(Cross(p, q, s)) < 0
    /\ Sign(Cross(r, s, p)) * Sign(Cross(r, s, q)) < 0

Edges(t) == { <<t[1], t[2]>>, <<t[2], t[3]>>, <<t[1], t[3]>> }
\* two candidate triangles cover a common area
Overlap(pts, t, u) ==
    \/ {pts[t[k]] : k \in 1..3} = {pts[u[k]] : k \in 1..3}
    \/ \E e \in Edges(t), f \in Edges(u) :
           ProperCross(pts[e[1]], pts[e[2]], pts[f[1]], pts[f[2]])

\* the triangulations Qhull may return: where four or more samples lie on
\* one circle the choice among the candidates is Qhull's
Triangulations(pts) ==
    LET cand == DelaunayCandidates(pts)
        Disjoint(T) == \A t, u \in T : t # u => ~Overlap(pts, t, u)
    IN  { T \in SUBSET cand :
            /\ Disjoint(T)
            /\ \A t \in cand \ T : ~Disjoint(T \cup {t}) }

\* p in the closed triangle t
Holds(pts, t, p) ==
    LET s == Sign(Cross(pts[t[1]], pts[t[2]], pts[t[3]]))
    IN  /\ Cross(p, pts[t[2]], pts[t[3]]) * s >= 0
        /\ Cross(pts[t[1]], p, pts[t[3]]) * s >= 0
        /\ Cross(pts[t[1]], pts[t[2]], p) * s >= 0

\* barycentric combination of the three values of t at p
Barycentric(pts, vals, t, p) ==
    LET d  == Cross(pts[t[1]], pts[t[2]], pts[t[3]])
        w1 == Cross(p, pts[t[2]], pts[t[3]])
        w2 == Cross(pts[t[1]], p, pts[t[3]])
        w3 == Cross(pts[t[1]], pts[t[2]], p)
        n  == w1 * vals[t[1]] + w2 * vals[t[2]] + w3 * vals[t[3]]
    IN  IF d > 0 THEN RNorm(<<n, d>>) ELSE RNorm(<<-n, -d>>)

\* variant: griddata(..., fill_value=0)
fill_zero == Num(RInt(0))
\* griddata's fill_value default
fill_value == NaN

\* LinearNDInterpolator at the node p
Interpolate(pts, vals, T, p) ==
    IF \E t \in T : Holds(pts, t, p)
    THEN Num(Barycentric(pts, vals, CHOOSE t \in T : Holds(pts, t, p), p))
    ELSE fill_value

\* numpy.mgrid[lo:hi:(n)j] along one axis: n nodes from lo to hi inclusive
mgrid(lo, hi, n) == [i \in 1..n |-> lo + ((i - 1) * (hi - lo)) \div (n - 1)]
grid_x == mgrid(-1, 5, 7)
grid_y == mgrid(-1, 5, 7)
Nodes == (DOMAIN grid_x) \X (DOMAIN grid_y)
NodeAt(ij) == <<grid_x[ij[1]], grid_y[ij[2]]>>

Collinear(pts) ==
    \A i, j, k \in DOMAIN pts : Cross(pts[i], pts[j], pts[k]) = 0

\* the samples: up to MaxSamples positions of a lattice, in CSV order
MaxSamples == 4
SampleLons == {0, 2, 4}
SampleLats == {0, 2, 4}
FieldInputs == {0, 5}
Before(a, b) == a[1] < b[1] \/ (a[1] = b[1] /\ a[2] < b[2])
RECURSIVE Sorted(_)
Sorted(S) ==
    IF S = {} THEN <<>>
    ELSE LET first == CHOOSE a \in S : \A b \in S \ {a} : Before(a, b)
         IN  <<first>> \o Sorted(S \ {first})
SampleSets ==
    { S \in SUBSET (SampleLons \X SampleLats) : Cardinality(S) <= MaxSamples }

Griddata ==
    /\ grid_z.kind = "none"
    /\ IF Len(coords) < 3 \/ Collinear(coords)
       THEN grid_z' = [kind |-> "QhullError"]
       ELSE \E T \in Triangulations(coords) :
                grid_z' = [kind |-> "grid",
                           simplices |-> T,
                           z |-> [ij \in Nodes |->
                                    Interpolate(coords, values, T,
                                                NodeAt(ij))]]
    /\ UNCHANGED <<coords, values, cmapVars, radarVars, capeVars, plotVars>>

(***************************************************************************)
(* compare_chart/plot.py, main(): the four panels                          *)
(*   "CAPE 1D", "CAPE 3D"  the two interpolated grids (lines 25-34)        *)
(*   "CAPE ERA5"           the gridded reference field (lines 37-40)       *)
(*   "RADAR"               the decoded radar scan (line 43)                *)
(* computed one after the other and then drawn and saved (lines 46-125).   *)
(* main() holds no try statement: an exception raised by any statement     *)
(* leaves main() and ends the run.                                         *)
(***************************************************************************)
Rasters == {"CAPE 1D", "CAPE 3D", "CAPE ERA5", "RADAR"}
Pending == [kind |-> "pending"]

\* the rows of a CSV file as a frame with its CAPE column renamed
Frame(rows, name) == [i \in DOMAIN rows |-> Rename(rows[i], "CAPE", name)]
\* numpy.stack((conv["Lon"].values, conv["Lat"].values), axis=1)
Stack(frame) == [i \in DOMAIN frame |-> <<frame[i]["Lon"], frame[i]["Lat"]>>]
Column(frame, name) == [i \in DOMAIN frame |-> frame[i][name]]

Raise(exception, step) ==
    /\ pc' = "aborted"
    /\ failure' = [kind |-> exception, at |-> step]

\* lines 14-16
ReadConv1d ==
    /\ pc = "start"
    /\ IF files.csv1d.exists
       THEN /\ conv1d' = Frame(files.csv1d.rows, "CAPE1D")
            /\ pc' = "read1d"
            /\ UNCHANGED failure
       ELSE /\ Raise("FileNotFoundError", "read_csv 1d")
            /\ UNCHANGED conv1d
    /\ UNCHANGED <<files, rasters, conv3d, conv, cape_pc, coords, values,
                   grid_z, radar_dict, data, cmapVars>>

\* lines 18-20
ReadConv3d ==
    /\ pc = "read1d"
    /\ IF files.csv3d.exists
       THEN /\ conv3d' = Frame(files.csv3d.rows, "CAPE3D")
            /\ pc' = "read3d"
            /\ UNCHANGED failure
       ELSE /\ Raise("FileNotFoundError", "read_csv 3d")
            /\ UNCHANGED conv3d
    /\ UNCHANGED <<files, rasters, conv1d, conv, cape_pc, coords, values,
                   grid_z, radar_dict, data, cmapVars>>

\* lines 22-26
MergeAndStack ==
    /\ pc = "read3d"
    /\ conv' = merge(conv1d, conv3d)
    /\ coords' = Stack(merge(conv1d, conv3d))
    /\ pc' = "merged"
    /\ UNCHANGED <<files, rasters, failure, conv1d, conv3d, cape_pc, values,
                   grid_z, radar_dict, data, cmapVars>>

\* griddata(coords, conv[column].values, (grid_x, grid_y), method="linear")
GridStep(from, to, raster, column) ==
    /\ pc = from
    /\ IF Len(coords) < 3 \/ Collinear(coords)
       THEN /\ Raise("QhullError", raster)
            /\ UNCHANGED rasters
       ELSE /\ \E T \in Triangulations(coords) :
                  /\ \A r \in Rasters :
                         rasters[r].kind = "grid" => rasters[r].simplices = T
                  /\ rasters' =
                       [rasters EXCEPT ![raster] =
                          [kind |-> "grid",
                           simplices |-> T,
                           z |-> [ij \in Nodes |->
                                    Interpolate(coords, Column(conv, column),
                                                T, NodeAt(ij))]]]
            /\ pc' = to
            /\ UNCHANGED failure
    /\ UNCHANGED <<files, conv1d, conv3d, conv, cape_pc, coords, values,
                   grid_z, radar_dict, data, cmapVars>>

\* lines 28-30
Grid1d == GridStep("merged", "grid1d", "CAPE 1D", "CAPE1D")
\* lines 32-34
Grid3d == GridStep("grid1d", "grid3d", "CAPE 3D", "CAPE3D")

\* lines 37-40
ReadEra5 ==
    /\ pc = "grid3d"
    /\ IF files.era5.exists
       THEN /\ rasters' = [rasters EXCEPT !["CAPE ERA5"] = [kind |-> "field"]]
            /\ pc' = "era5"
            /\ UNCHANGED failure
       ELSE /\ Raise("FileNotFoundError", "CAPE ERA5")
            /\ UNCHANGED rasters
    /\ UNCHANGED <<files, conv1d, conv3d, conv, cape_pc, coords, values,
                   grid_z, radar_dict, data, cmapVars>>

\* line 43
ReadRadar ==
    /\ pc = "era5"
    /\ IF ~files.radar.exists
       THEN /\ Raise("FileNotFoundError", "RADAR")
            /\ UNCHANGED <<rasters, radar_dict>>
       ELSE /\ radar_dict' = files.radar.dict
            /\ LET radar_data == get_radar_data(files.radar.dict)
               IN  IF radar_data.kind = "array"
                   THEN /\ rasters' = [rasters EXCEPT !["RADAR"] = radar_data]
                        /\ pc' = "radar"
                        /\ UNCHANGED failure
                   ELSE /\ Raise(radar_data.kind, "RADAR")
                        /\ UNCHANGED rasters
    /\ UNCHANGED <<files, conv1d, conv3d, conv, cape_pc, coords, values,
                   grid_z, data, cmapVars>>

\* lines 46-125
Render ==
    /\ pc = "radar"
    /\ pc' = "saved"
    /\ UNCHANGED <<files, rasters, failure, conv1d, conv3d, conv, cape_pc,
                   coords, values, grid_z, radar_dict, data, cmapVars>>

\* what the run finds on disk
TrianglePoints == << <<0, 0>>, <<4, 0>>, <<0, 4>> >>
LinePoints     == << <<0, 0>>, <<2, 2>>, <<4, 4>> >>
TwoPoints      == << <<0, 0>>, <<4, 0>> >>
CsvAt(points, cape) ==
    [i \in DOMAIN points |->
        [Lon |-> points[i][1], Lat |-> points[i][2], CAPE |-> cape[i]]]
CsvFiles(cape) ==
    { [exists |-> FALSE, rows |-> <<>>] } \cup
    { [exists |-> TRUE, rows |-> CsvAt(p, cape)] :
          p \in {TrianglePoints, LinePoints, TwoPoints} }
Era5Files == { [exists |-> e] : e \in BOOLEAN }
RadarFiles ==
    { [exists |-> FALSE, dict |-> EmptyDict] } \cup
    { [exists |-> TRUE, dict |-> d] :
          d \in { ("@min" :> 0) @@ ("@max" :> 65) @@
                      ("datamap" :> (("@depth" :> 8) @@ ("data" :> <<0, 128>>))),
                  ("@min" :> 0) @@ ("@max" :> 65) @@
                      ("datamap" :> ("@depth" :> 8)),
                  ("@min" :> 0) @@ ("@max" :> 65) } }
PlotInputs ==
    [csv1d : CsvFiles(<<10, 20, 0>>), csv3d : CsvFiles(<<12, 18, 0>>),
     era5 : Era5Files, radar : RadarFiles]

(***************************************************************************)
(* Properties of the colour map builder (SpecCmap).                        *)
(***************************************************************************)
Palettes == {"get_radar_cmap", "get_meteologix_cmap", "get_pivotal_cmap"}
Built == cmapCall.kind # "none"
LengthsDiffer ==
    \/ Len(cmapCall.hex_list) # Len(cmapCall.float_list)
    \/ Len(cmapCall.hex_list) # Len(cmapCall.alpha_list)
\* the builder raised instead of returning a colour map (whatever the
\* Python class of the exception)
BuildFailed == cmp.kind \in {"ConfigError", "IndexError"}

\* C1: building a colour map from hex, position and alpha lists whose
\* lengths are not all equal always ends in a failure: no colour map is
\* returned.
C1_MismatchedLengthsFail ==
    (Built /\ LengthsDiffer) => (BuildFailed /\ cmp.kind # "cmap")

\* a state in which a surplus colour and a surplus alpha were dropped
C1_SurplusDropped ==
    /\ Built
    /\ Len(cmapCall.hex_list) = 3
    /\ Len(cmapCall.float_list) = 2
    /\ Len(cmapCall.alpha_list) = 3
    /\ cmp.kind = "cmap"
    /\ Len(cmp.segmentdata[1]) = 2
    /\ lookup.kind = "rgba"

\* The colour a hex code denotes: each 8 bit component over 255, so that
\* "ff" is full intensity.
HexColour(h) == [k \in 1..3 |-> Rat(hex_to_rgb(h)[k], 255)]
AnchorRGBA(i) == HexColour(cmapCall.hex_list[i]) \o <<cmapCall.alpha_list[i]>>
SameRGBA(a, b) == \A k \in 1..4 : REq(a[k], b[k])
ValidMapSampled ==
    /\ Built
    /\ ~LengthsDiffer
    /\ lookup.kind = "rgba"

\* C2: for a valid colour map, the lookup at 0.0 is exactly the first
\* anchor's RGBA and the lookup at 1.0 exactly the last anchor's RGBA, the
\* RGB of an anchor being the colour its hex code denotes.
C2_EndpointsAreAnchors ==
    ValidMapSampled =>
        /\ REq(lookup.t, RInt(0)) => SameRGBA(lookup.value, AnchorRGBA(1))
        /\ REq(lookup.t, RInt(1)) =>
               SameRGBA(lookup.value, AnchorRGBA(Len(cmapCall.hex_list)))

InUnit(x) == RLe(RInt(0), x) /\ RLe(x, RInt(1))
WellFormedAnchors(c) ==
    /\ Len(c.hex_list) = Len(c.float_list)
    /\ Len(c.hex_list) = Len(c.alpha_list)
    /\ Len(c.float_list) > 0
    /\ \A i \in 1..(Len(c.float_list) - 1) :
           RLe(c.float_list[i], c.float_list[i + 1])
    /\ REq(c.float_list[1], RInt(0))
    /\ REq(c.float_list[Len(c.float_list)], RInt(1))
    /\ \A i \in DOMAIN c.float_list : InUnit(c.float_list[i])
    /\ \A i \in DOMAIN c.alpha_list : InUnit(c.alpha_list[i])

\* C10: each built-in palette hands the builder hex, position and alpha
\* lists of one length, with non-decreasing positions in [0, 1] that start
\* at 0 and end at 1, and alphas in [0, 1].
C10_PalettesWellFormed ==
    (cmapCall.kind \in Palettes) =>
        (WellFormedAnchors(cmapCall) /\ cmp.kind = "cmap")

C10_Witness ==
    /\ cmapCall.kind = "get_radar_cmap"
    /\ Len(cmapCall.hex_list) = 22
    /\ cmp.kind = "cmap"
    /\ lookup.kind = "rgba"

(***************************************************************************)
(* Properties of the radar decoder (SpecRadar).                            *)
(***************************************************************************)
Decoded == data.kind = "array"
RawOf(i) == radar_dict["datamap"]["data"][i]
DepthOf == radar_dict["datamap"]["@depth"]

\* value = valueMin + raw * (valueMax - valueMin) / 2^bitDepth, stated
\* without division: value * 2^bitDepth = valueMin * 2^bitDepth + raw * range
DecodesTo(v, raw, lo, hi, depth) ==
    v[1] * Pow2(depth) = (lo * Pow2(depth) + raw * (hi - lo)) * v[2]

\* C3: every decoded cell equals valueMin + raw * (valueMax - valueMin) /
\* 2^bitDepth for its raw sample; min 0, max 65, depth 8, raw 128 decodes to
\* 32.5.
C3_AffineRescale ==
    Decoded =>
        /\ Len(data.cells) = Len(radar_dict["datamap"]["data"])
        /\ \A i \in DOMAIN data.cells :
               /\ DecodesTo(data.cells[i], RawOf(i), radar_dict["@min"],
                            radar_dict["@max"], DepthOf)
               /\ ( radar_dict["@min"] = 0 /\ radar_dict["@max"] = 65
                    /\ DepthOf = 8 /\ RawOf(i) = 128 )
                  => REq(data.cells[i], Rat(65, 2))

C3_Witness ==
    /\ Decoded
    /\ radar_dict["@min"] = 0 /\ radar_dict["@max"] = 65 /\ DepthOf = 8
    /\ radar_dict["datamap"]["data"] = <<128>>
    /\ data.cells = <<Rat(65, 2)>>

RawInRange ==
    \A i \in DOMAIN radar_dict["datamap"]["data"] : RawOf(i) < Pow2(DepthOf)
\* the decoder raised (whatever the Python class of the exception)
DecodeFailed == data.kind \in {"FormatError", "KeyError"}

\* C4: decoding fails, and returns no array, when a required field is
\* absent or a raw sample is >= 2^bitDepth; an array is returned only when
\* every raw sample is below 2^bitDepth.
C4_MalformedInputFails ==
    (data.kind # "none") =>
        /\ ~KeysPresent(radar_dict) => DecodeFailed
        /\ (KeysPresent(radar_dict) /\ ~RawInRange) => DecodeFailed
        /\ Decoded => RawInRange

(***************************************************************************)
(* Properties of the merge and of the derived columns (SpecCape).          *)
(***************************************************************************)
Coord(row) == <<row["Lon"], row["Lat"]>>
CoordsOf(frame) == {Coord(frame[i]) : i \in DOMAIN frame}
NoRepeat(frame) ==
    \A i, j \in DOMAIN frame : Coord(frame[i]) = Coord(frame[j]) => i = j
Merged == cape_pc \in {"merged", "diff", "done"}
IsNum(x, r) == x.k = "num" /\ REq(x.v, r)

Scenario ==
    /\ Len(conv1d) = 2 /\ Len(conv3d) = 2
    /\ Range(conv1d) = { [Lon |-> 1, Lat |-> 1, CAPE1D |-> 10],
                         [Lon |-> 2, Lat |-> 2, CAPE1D |-> 20] }
    /\ Range(conv3d) = { [Lon |-> 1, Lat |-> 1, CAPE3D |-> 12],
                         [Lon |-> 2, Lat |-> 2, CAPE3D |-> 18] }
RowAt(c) == conv[CHOOSE i \in DOMAIN conv : Coord(conv[i]) = c]
OneRowPerCoordinate ==
    /\ Len(conv) = 2
    /\ CoordsOf(conv) = { <<1, 1>>, <<2, 2>> }
\* |x - c/100| <= 1/100 for the number x
Within001(x, c) ==
    /\ x.k = "num"
    /\ Abs(100 * x.v[1] - c * x.v[2]) <= x.v[2]

\* C7 as stated: in the scenario the merge yields one row per coordinate,
\* the difference is 2 at (1,1) and -2 at (2,2), and the relative error is
\* 20.0 at (1,1) and 11.11 (within 0.01) at (2,2).
C7_ScenarioAsStated ==
    (Scenario /\ cape_pc = "done") =>
        /\ OneRowPerCoordinate
        /\ RowAt(<<1, 1>>)["diff"] = 2
        /\ RowAt(<<2, 2>>)["diff"] = -2
        /\ IsNum(RowAt(<<1, 1>>)["rel_err"], RInt(20))
        /\ Within001(RowAt(<<2, 2>>)["rel_err"], 1111)

\* C7 amended: as above, with the relative error 20.0 at (1,1) and 10.0 at
\* (2,2) (|difference| / CAPE1D * 100, the reference being field A at both
\* coordinates).
C7_ScenarioAmended ==
    (Scenario /\ cape_pc = "done") =>
        /\ OneRowPerCoordinate
        /\ RowAt(<<1, 1>>)["diff"] = 2
        /\ RowAt(<<2, 2>>)["diff"] = -2
        /\ IsNum(RowAt(<<1, 1>>)["rel_err"], RInt(20))
        /\ IsNum(RowAt(<<2, 2>>)["rel_err"], RInt(10))

C7_Witness ==
    /\ Scenario
    /\ cape_pc = "done"
    /\ Len(conv) = 2
    /\ IsNum(RowAt(<<2, 2>>)["rel_err"], RInt(10))

\* C8: the merge is an inner join on exact (Lon, Lat): a coordinate has a
\* row in the result iff it occurs in both inputs, every result row carries
\* the CAPE1D of a conv1d row and the CAPE3D of a conv3d row at its
\* coordinate, and when neither input repeats a coordinate the result has
\* exactly one row per matched coordinate.
C8_InnerJoin ==
    Merged =>
        /\ CoordsOf(conv) = CoordsOf(conv1d) \cap CoordsOf(conv3d)
        /\ \A i \in DOMAIN conv :
               /\ \E j \in DOMAIN conv1d :
                      /\ Coord(conv1d[j]) = Coord(conv[i])
                      /\ conv1d[j]["CAPE1D"] = conv[i]["CAPE1D"]
               /\ \E j \in DOMAIN conv3d :
                      /\ Coord(conv3d[j]) = Coord(conv[i])
                      /\ conv3d[j]["CAPE3D"] = conv[i]["CAPE3D"]
        /\ (NoRepeat(conv1d) /\ NoRepeat(conv3d)) =>
               /\ NoRepeat(conv)
               /\ Len(conv) =
                      Cardinality(CoordsOf(conv1d) \cap CoordsOf(conv3d))

C8_Witness ==
    /\ cape_pc = "merged"
    /\ Len(conv1d) = 2 /\ NoRepeat(conv1d)
    /\ Len(conv3d) = 2 /\ NoRepeat(conv3d)
    /\ Cardinality(CoordsOf(conv1d) \cap CoordsOf(conv3d)) = 1
    /\ Len(conv) = 1
    /\ conv[1]["Lon"] # conv[1]["Lat"]

(***************************************************************************)
(* Properties of the interpolation (SpecGrid).                             *)
(***************************************************************************)
\* p is in the convex hull of the samples (not all on one line): p is on
\* the samples' side of every line through two samples that has all the
\* samples on one side
InHull(pts, p) ==
    \A i, j \in DOMAIN pts :
        ( /\ pts[i] # pts[j]
          /\ \A k \in DOMAIN pts : Cross(pts[i], pts[j], pts[k]) >= 0 )
        => Cross(pts[i], pts[j], p) >= 0

\* C9: every lattice node outside the convex hull of the sample coordinates
\* is no-data (NaN, not a number and so not zero), and every node inside
\* the hull holds a number.
C9_NoDataOutsideHull ==
    (grid_z.kind = "grid") =>
        \A ij \in Nodes :
            /\ ~InHull(coords, NodeAt(ij)) => grid_z.z[ij] = NaN
            /\ InHull(coords, NodeAt(ij)) => grid_z.z[ij].k = "num"

C9_Witness ==
    /\ grid_z.kind = "grid"
    /\ Len(coords) = 4
    /\ Cardinality(grid_z.simplices) = 2
    /\ \E ij \in Nodes : grid_z.z[ij] = NaN
    /\ \E ij \in Nodes :
          /\ NodeAt(ij) \notin Range(coords)
          /\ grid_z.z[ij].k = "num"
          /\ REq(grid_z.z[ij].v, RInt(0))
    /\ \E ij \in Nodes :
          /\ grid_z.z[ij].k = "num"
          /\ ~REq(grid_z.z[ij].v, RInt(0))

(***************************************************************************)
(* Properties of the four panel run (SpecPlot).                            *)
(***************************************************************************)
Ended == pc \in {"saved", "aborted"}
PlotCoords ==
    Stack(merge(Frame(files.csv1d.rows, "CAPE1D"),
                Frame(files.csv3d.rows, "CAPE3D")))
\* the inputs of the raster r allow its computation
InputsSound(r) ==
    CASE r \in {"CAPE 1D", "CAPE 3D"} ->
            /\ files.csv1d.exists /\ files.csv3d.exists
            /\ Len(PlotCoords) >= 3 /\ ~Collinear(PlotCoords)
      [] r = "CAPE ERA5" -> files.era5.exists
      [] r = "RADAR" -> files.radar.exists /\ KeysPresent(files.radar.dict)

\* C5: in the four panel run a failure while computing one raster does not
\* prevent the other rasters from being computed: when the run has ended,
\* every raster whose own inputs are sound has been computed, and a failure
\* is that of one raster, not the end of the whole run.
C5_FailureIsolated ==
    Ended =>
        /\ \A r \in Rasters : InputsSound(r) => rasters[r] # Pending
        /\ (\E r \in Rasters : InputsSound(r)) => pc = "saved"

(***************************************************************************)
(* Specifications: one per component, the other components idle.           *)
(***************************************************************************)
IdleCmap  == cmapCall = None /\ cmp = None /\ lookup = None
IdleRadar == radar_dict = EmptyDict /\ data = None
IdleCape  == conv1d = <<>> /\ conv3d = <<>> /\ conv = <<>> /\ cape_pc = "idle"
IdleGrid  == coords = <<>> /\ values = <<>> /\ grid_z = None
IdlePlot  == files = EmptyDict /\ pc = "idle" /\ rasters = EmptyDict /\ failure = None

InitCmap == IdleCmap /\ IdleRadar /\ IdleCape /\ IdleGrid /\ IdlePlot
NextCmap == \/ GetContinuousCmap
            \/ GetRadarCmap
            \/ GetMeteologixCmap
            \/ GetPivotalCmap
            \/ Sample
SpecCmap == InitCmap /\ [][NextCmap]_vars

InitRadar == /\ radar_dict \in RadarInputs
             /\ data = None
             /\ IdleCmap /\ IdleCape /\ IdleGrid /\ IdlePlot
NextRadar == GetRadarData
SpecRadar == InitRadar /\ [][NextRadar]_vars

InitCape == /\ conv1d \in Frames(Cape1DInputs, "CAPE1D")
            /\ conv3d \in Frames(Cape3DInputs, "CAPE3D")
            /\ conv = <<>>
            /\ cape_pc = "read"
            /\ IdleCmap /\ IdleRadar /\ IdleGrid /\ IdlePlot
NextCape == \/ MergeFrames
            \/ DeriveDiff
            \/ DeriveRelErr
SpecCape == InitCape /\ [][NextCape]_vars

InitGrid == /\ \E S \in SampleSets :
                  /\ coords = Sorted(S)
                  /\ values \in [1..Cardinality(S) -> FieldInputs]
            /\ grid_z = None
            /\ IdleCmap /\ IdleRadar /\ IdleCape /\ IdlePlot
NextGrid == Griddata
SpecGrid == InitGrid /\ [][NextGrid]_vars

InitPlot == /\ files \in PlotInputs
            /\ pc = "start"
            /\ rasters = [r \in Rasters |-> Pending]
            /\ failure = None
            /\ IdleCmap /\ IdleRadar /\ IdleCape /\ IdleGrid
NextPlot == \/ ReadConv1d
            \/ ReadConv3d
            \/ MergeAndStack
            \/ Grid1d
            \/ Grid3d
            \/ ReadEra5
            \/ ReadRadar
            \/ Render
SpecPlot == InitPlot /\ [][NextPlot]_vars

====
